---- MODULE Spec2Model ----
(***************************************************************************)
(* Model of the Yonote notifications bot (src/bot.py, src/settings.py):    *)
(* the user registry (table users), the mute store (table                  *)
(* notification_settings and its in-memory cache _disabled_until), the     *)
(* notification cycle check_notifications with its event classifier, and   *)
(* the chat handlers that change that state.                               *)
(*                                                                         *)
(* Two coroutines share the asyncio event loop: the scheduler's job        *)
(* (thread "cycle"; APScheduler keeps one running instance and skips a     *)
(* tick that fires while it runs) and the chat update dispatcher (thread   *)
(* "chat"; python-telegram-bot handles one update at a time).  A coroutine *)
(* gives up control only at an await, so every action below runs from one  *)
(* await to the next.                                                      *)
(***************************************************************************)
EXTENDS Naturals, Sequences, FiniteSets

(***************************************************************************)
(* Bounds of the model.                                                    *)
(***************************************************************************)
NumUsers == 2        \* chat users 1..NumUsers
NumTokens == 1       \* workspace tokens a user may submit
MaxTime == 1         \* the clock runs over 0..MaxTime (hours)
MaxEvents == 2       \* events published to all feeds together
PageLimit == 2       \* page size of events.list (stands for limit=20)
MaxCommands == 2     \* chat commands and registry calls issued in a run
MaxIds == 3          \* event ids of the classifier's input pages
MaxPageLen == 3      \* length of the classifier's input pages
MaxFeed == 4         \* events published to all feeds together on a long feed
MaxHours == 5        \* the clock of the mute store on its own runs over 0..MaxHours
MaxBodyLen == 202    \* length of the formatter's input comment bodies

UserIds == 1..NumUsers
Tokens == 1..NumTokens
Threads == {"cycle", "chat"}

(***************************************************************************)
(* Optional values: Python's None and a present value.                     *)
(***************************************************************************)
None == <<>>
Some(v) == <<v>>
Val(o) == o[1]

(***************************************************************************)
(* Strings.  str.lower() and the substring test `keyword in event_type`.   *)
(***************************************************************************)
LowerChar(ch) ==
    CASE ch = "A" -> "a" [] ch = "B" -> "b" [] ch = "C" -> "c" [] ch = "D" -> "d"
      [] ch = "E" -> "e" [] ch = "F" -> "f" [] ch = "G" -> "g" [] ch = "H" -> "h"
      [] ch = "I" -> "i" [] ch = "J" -> "j" [] ch = "K" -> "k" [] ch = "L" -> "l"
      [] ch = "M" -> "m" [] ch = "N" -> "n" [] ch = "O" -> "o" [] ch = "P" -> "p"
      [] ch = "Q" -> "q" [] ch = "R" -> "r" [] ch = "S" -> "s" [] ch = "T" -> "t"
      [] ch = "U" -> "u" [] ch = "V" -> "v" [] ch = "W" -> "w" [] ch = "X" -> "x"
      [] ch = "Y" -> "y" [] ch = "Z" -> "z" [] OTHER -> ch

RECURSIVE LowerFrom(_, _)
LowerFrom(s, i) ==
    IF i > Len(s) THEN ""
    ELSE LowerChar(SubSeq(s, i, i)) \o LowerFrom(s, i + 1)

Lower(s) == LowerFrom(s, 1)

Contains(s, sub) ==
    \E i \in 1..(Len(s) + 1) :
        i + Len(sub) - 1 <= Len(s) /\ SubSeq(s, i, i + Len(sub) - 1) = sub

(***************************************************************************)
(* Events.  An event is [id, name, documentId]; ids are non-empty opaque   *)
(* strings in the feed, modelled as the numbers 1, 2, ... (so the          *)
(* truthiness test on last_event_id is the test for presence).             *)
(***************************************************************************)
comment_events ==
    {"comments.create", "comments.update", "comments.delete", "comments.resolve",
     "comment.create", "comment.update", "comment.delete", "comment.resolve"}

\* The second keyword stands for the Cyrillic word of the source.
comment_keywords == {"comment", "kommentariy"}

\* A test on the name as it came, without lower().
_is_comment_event_as_written(event) ==
    event.name \in comment_events
        \/ \E keyword \in comment_keywords : Contains(event.name, keyword)

_is_comment_event(event) ==
    LET event_type == Lower(event.name)
    IN  event_type \in comment_events
        \/ \E keyword \in comment_keywords : Contains(event_type, keyword)

\* A scan that skips the event at the cursor and goes on (continue for break).
new_events_scan_continue(last_event_id, events) ==
    SelectSeq(events, LAMBDA event : last_event_id = None \/ event.id # Val(last_event_id))

\* A scan that never stops: every event of the page is new.
scan_whole_page(last_event_id, events, i) == SubSeq(events, i, Len(events))

\* _process_events, lines 458-463: the for loop from the i-th event on.
RECURSIVE scan_from(_, _, _)
scan_from(last_event_id, events, i) ==
    IF i > Len(events) THEN <<>>
    ELSE IF last_event_id # None /\ events[i].id = Val(last_event_id) THEN <<>>
    ELSE <<events[i]>> \o scan_from(last_event_id, events, i + 1)

\* _process_events: the scan that collects new_events, stopping at the cursor.
new_events_scan(last_event_id, events) == scan_from(last_event_id, events, 1)

\* The list without the filter: every new event is taken for a comment event.
comment_events_unfiltered(events) == events

\* _process_events: comment_events = [e for e in new_events if _is_comment_event(e)]
comment_events_of(events) == SelectSeq(events, LAMBDA e : _is_comment_event(e))

\* The id of the newest comment event, when there is one, for the newest
\* event's.
cursor_target_comment(new_events) ==
    IF comment_events_of(new_events) = <<>> THEN new_events[1].id
    ELSE comment_events_of(new_events)[1].id

\* The oldest new event's id (new_events[-1]) for the newest one's.
cursor_target_oldest(new_events) == new_events[Len(new_events)].id

\* The id update_last_event_id is called with: new_events[0]['id'].
cursor_target(new_events) == new_events[1].id

Ids(events) == {events[i].id : i \in 1..Len(events)}


(***************************************************************************)
(* State.                                                                  *)
(***************************************************************************)
VARIABLES
    users,                  \* table users: user_id -> None or Some(row)
    notification_settings,  \* table notification_settings: user_id -> None or Some(disabled_until)
    _disabled_until,        \* the cache NotificationSettings._disabled_until
    waiting_for_token,      \* context.user_data['waiting_for_token'] of each user
    now,                    \* datetime.now(), in hours
    feed,                   \* the remote event feed of each user's workspace, oldest first
    pc,                     \* where each coroutine is suspended
    row,                    \* are_notifications_enabled: the row its SELECT returned
    hUser, hArg,            \* the chat handler's user_id, and its token or disabled_until
    hAuth,                  \* _handle_token_input: auth_info, the answer of auth.info
    hRes,                   \* settings_callback: disabled_until, what get_disabled_until returned
    cUsers,                 \* check_notifications: the users still to handle, current one first
    cSession,               \* the current user's YonoteAPI session: "none", "open", "closed"
    cPage,                  \* the page of events fetched for the current user
    cNew,                   \* _process_events: new_events
    cPending,               \* _process_events: comment_events not yet handled
    cSent,                  \* notifications sent to the current user in this cycle
    cSkipped,               \* ids of comment events of the current user dropped without a send
    delivered,              \* history: ids of the events ever delivered to each user
    ncmd,                   \* chat commands and registry calls issued so far
    running,                \* the scheduler's count of running check_notifications instances
    missed,                 \* history: the scheduler has skipped a run of the job
    expired,                \* history: are_notifications_enabled returned True on an expired
                            \* window of the user, and no disable was called since
    ret,                    \* the result of the latest call made on the mute store directly
    ref_rows                \* the rows of a mute store without a cache, given the same calls

vars == <<users, notification_settings, _disabled_until, waiting_for_token, now, feed,
          pc, row, hUser, hArg, hAuth, hRes, cUsers, cSession, cPage, cNew, cPending,
          cSent, cSkipped, delivered, ncmd, running, missed, expired, ret, ref_rows>>

tables == <<users, notification_settings>>
world == <<now, feed>>
chatLocals == <<hUser, hArg, hAuth, hRes>>
cycleLocals == <<cUsers, cSession, cPage, cNew, cPending, cSent, cSkipped, running>>
probe == <<ret, ref_rows>>
marks == <<missed, expired, probe>>
history == <<delivered, marks>>

(***************************************************************************)
(* User registry (class Database).                                         *)
(***************************************************************************)
\* An UPDATE of the token column of an existing record, an INSERT otherwise.
save_user_token_keeps(tbl, user_id, token) ==
    IF tbl[user_id] = None
    THEN [tbl EXCEPT ![user_id] = Some([yonote_token |-> token,
                                        notifications_enabled |-> TRUE,
                                        last_event_id |-> None])]
    ELSE [tbl EXCEPT ![user_id] = Some([Val(@) EXCEPT !.yonote_token = token])]

\* INSERT OR REPLACE INTO users (user_id, yonote_token): the other columns
\* take their defaults, notifications_enabled = 1 and last_event_id = NULL.
save_user_token(tbl, user_id, token) ==
    [tbl EXCEPT ![user_id] = Some([yonote_token |-> token,
                                   notifications_enabled |-> TRUE,
                                   last_event_id |-> None])]

\* UPDATE users SET notifications_enabled = ? WHERE user_id = ?
update_notifications_enabled(tbl, user_id, enabled) ==
    IF tbl[user_id] = None THEN tbl
    ELSE [tbl EXCEPT ![user_id] = Some([Val(@) EXCEPT !.notifications_enabled = enabled])]

\* An UPDATE that is never committed.
update_last_event_id_lost(tbl, user_id, event_id) == tbl

\* UPDATE users SET last_event_id = ? WHERE user_id = ?
update_last_event_id(tbl, user_id, event_id) ==
    IF tbl[user_id] = None THEN tbl
    ELSE [tbl EXCEPT ![user_id] = Some([Val(@) EXCEPT !.last_event_id = Some(event_id)])]

\* DELETE FROM users WHERE user_id = ?  (foreign keys are not enforced and
\* nothing else is deleted)
delete_user(tbl, user_id) == [tbl EXCEPT ![user_id] = None]

\* SELECT ... FROM users, in rowid (= user_id) order.
RECURSIVE all_users_from(_, _)
all_users_from(tbl, u) ==
    IF u > NumUsers THEN <<>>
    ELSE (IF tbl[u] = None THEN <<>>
          ELSE <<[user_id |-> u,
                  yonote_token |-> Val(tbl[u]).yonote_token,
                  notifications_enabled |-> Val(tbl[u]).notifications_enabled,
                  last_event_id |-> Val(tbl[u]).last_event_id]>>)
         \o all_users_from(tbl, u + 1)

get_all_users(tbl) == all_users_from(tbl, 1)

(***************************************************************************)
(* Mute store (class NotificationSettings): its writes to the table and to *)
(* the cache.                                                              *)
(***************************************************************************)
\* disable_time_callback: hours_map
hours_map == [disable_1h |-> 1, disable_4h |-> 4, disable_24h |-> 24]

\* An upsert that keeps the later end of the old and the new window.
settings_upsert_longer(tbl, user_id, disabled_until) ==
    [tbl EXCEPT ![user_id] =
        IF @ # None /\ Val(@) > disabled_until THEN @ ELSE Some(disabled_until)]

\* datetime.isoformat(): the text of a time, as its day and its hour of day.
isoformat(t) == [day |-> t \div 24, hour |-> t % 24]

\* datetime.fromisoformat(): the time a text stands for.
fromisoformat(text) == text.day * 24 + text.hour

\* INSERT OR REPLACE INTO notification_settings (user_id, disabled_until),
\* with disabled_until.isoformat() as the value; a row is modelled by the time
\* fromisoformat reads back from it (lines 73 and 95).
settings_upsert(tbl, user_id, disabled_until) ==
    [tbl EXCEPT ![user_id] = Some(fromisoformat(isoformat(disabled_until)))]

\* DELETE FROM notification_settings WHERE user_id = ?
settings_delete(tbl, user_id) == [tbl EXCEPT ![user_id] = None]

\* A cache entry one hour later than the value given.
cache_put_later(cache, user_id, disabled_until) ==
    [cache EXCEPT ![user_id] = Some(disabled_until + 1)]

\* self._disabled_until[user_id] = disabled_until
cache_put(cache, user_id, disabled_until) ==
    [cache EXCEPT ![user_id] = Some(disabled_until)]

\* A cache that keeps the entry.
cache_del_kept(cache, user_id) == cache

\* if user_id in self._disabled_until: del self._disabled_until[user_id]
cache_del(cache, user_id) == [cache EXCEPT ![user_id] = None]

\* A read that looks at the row first.
get_disabled_until_row_first(cache, tbl, user_id) ==
    IF tbl[user_id] # None THEN tbl[user_id] ELSE cache[user_id]

\* get_disabled_until, lines 84-98: the cache entry when there is one, else
\* the row's value, else None.
get_disabled_until(cache, tbl, user_id) ==
    IF cache[user_id] # None THEN cache[user_id] ELSE tbl[user_id]

(***************************************************************************)
(* The remote workspace: events.list returns the newest PageLimit events   *)
(* of the feed, newest first.                                              *)
(***************************************************************************)
Min(a, b) == IF a <= b THEN a ELSE b

get_events(f) ==
    [i \in 1..Min(PageLimit, Len(f)) |-> f[Len(f) + 1 - i]]

\* The events the feed may publish: a comment event with and without a
\* document id, and an event that is no comment event.
FeedEvent(id) ==
    { [id |-> id, name |-> "comments.create", documentId |-> Some(id)],
      [id |-> id, name |-> "comments.create", documentId |-> None],
      [id |-> id, name |-> "documents.update", documentId |-> Some(id)] }


\* No call has been made on the mute store directly, or the latest one
\* returned nothing.
NoResult == [op |-> "none", user |-> 0, impl |-> None, ref |-> None]

(***************************************************************************)
(* Initial state: the process has started on a database file that holds    *)
(* the users who connected earlier; no mute window, an empty cache, empty  *)
(* feeds, and both coroutines idle.                                        *)
(***************************************************************************)
Init ==
    /\ users \in [UserIds -> {None} \cup
                    {Some([yonote_token |-> tok, notifications_enabled |-> TRUE,
                           last_event_id |-> None]) : tok \in Tokens}]
    /\ notification_settings = [u \in UserIds |-> None]
    /\ _disabled_until = [u \in UserIds |-> None]
    /\ waiting_for_token = [u \in UserIds |-> FALSE]
    /\ now = 0
    /\ feed = [u \in UserIds |-> <<>>]
    /\ pc = [t \in Threads |-> "idle"]
    /\ row = [t \in Threads |-> None]
    /\ hUser = 0
    /\ hArg = 0
    /\ hAuth = None
    /\ hRes = None
    /\ cUsers = <<>>
    /\ cSession = "none"
    /\ cPage = <<>>
    /\ cNew = <<>>
    /\ cPending = <<>>
    /\ cSent = <<>>
    /\ cSkipped = {}
    /\ delivered = [u \in UserIds |-> {}]
    /\ ncmd = 0
    /\ running = 0
    /\ missed = FALSE
    /\ expired = [u \in UserIds |-> FALSE]
    /\ ret = NoResult
    /\ ref_rows = [u \in UserIds |-> None]

(***************************************************************************)
(* Control flow shared by the two coroutines.                              *)
(***************************************************************************)
\* The user the coroutine t works for.
ThreadUser(t) == IF t = "cycle" THEN Head(cUsers).user_id ELSE hUser

\* Coroutine t, working for user u, suspends at the await named label.
Goto(t, u, label) ==
    /\ pc' = [pc EXCEPT ![t] = label]
    /\ hUser' = IF t = "chat" THEN u ELSE hUser
    /\ UNCHANGED <<hArg, hAuth, hRes, cycleLocals>>

\* The chat handler is over (it returned, or an exception left it).
ChatIdle ==
    /\ pc' = [pc EXCEPT !["chat"] = "idle"]
    /\ hUser' = 0
    /\ hArg' = 0
    /\ hAuth' = None
    /\ hRes' = None

\* A cycle that fetches the events whatever the mute check returned.
AfterMuteCheck_fetch(res) == "get_events"

\* check_notifications, lines 440-445: `continue` on False, the fetch on True.
AfterMuteCheck(res) == IF res THEN "get_events" ELSE "done"

\* are_notifications_enabled returns res to its caller.  check_notifications
\* (lines 440-445) goes on to the next user on False and creates the client
\* and requests the events on True; settings_callback (lines 302-309) asks
\* get_disabled_until on False.  enable_notifications_callback ends like a
\* True return.
ReturnIsEnabled(t, u, res) ==
    IF t = "cycle"
    THEN /\ pc' = [pc EXCEPT ![t] = AfterMuteCheck(res)]
         /\ cSession' = IF res THEN "open" ELSE cSession
         /\ UNCHANGED <<chatLocals, cUsers, cPage, cNew, cPending, cSent, cSkipped, running>>
    ELSE /\ pc' = [pc EXCEPT ![t] = IF res THEN "idle" ELSE "get_disabled_until"]
         /\ hUser' = IF res THEN 0 ELSE u
         /\ hArg' = 0
         /\ hAuth' = None
         /\ hRes' = IF res THEN None
                   ELSE \* settings_callback calls get_disabled_until with no await
                        \* in between, on the cache as the False return left it
                        get_disabled_until(
                            IF _disabled_until[u] # None THEN _disabled_until
                            ELSE cache_put(_disabled_until, u, Val(row[t])),
                            notification_settings, u)
         /\ UNCHANGED cycleLocals

\* A durable-store failure inside a mute-store call: the exception leaves the
\* chat handler; in check_notifications the call (line 440) is outside the
\* try block, so the exception leaves the whole cycle.
RaiseFromStore(t) ==
    IF t = "cycle"
    THEN /\ pc' = [pc EXCEPT ![t] = "idle"]
         /\ cUsers' = <<>>
         /\ running' = running - 1
         /\ UNCHANGED <<chatLocals, cSession, cPage, cNew, cPending, cSent, cSkipped>>
    ELSE /\ ChatIdle
         /\ UNCHANGED cycleLocals

(***************************************************************************)
(* NotificationSettings.are_notifications_enabled and enable_notifications,*)
(* run by either coroutine.                                                *)
(***************************************************************************)
\* Lines 56-62: the cache check, up to the first await.
are_notifications_enabled(t, user_id) ==
    /\ IF _disabled_until[user_id] # None
       THEN IF now < Val(_disabled_until[user_id])
            THEN ReturnIsEnabled(t, user_id, FALSE)
            ELSE Goto(t, user_id, "enable_db")
       ELSE Goto(t, user_id, "select")
    /\ UNCHANGED <<tables, _disabled_until, waiting_for_token, world, row, history>>

\* Lines 65-70: SELECT disabled_until FROM notification_settings.
select_row(t) ==
    /\ pc[t] = "select"
    /\ \/ /\ row' = [row EXCEPT ![t] = notification_settings[ThreadUser(t)]]
          /\ Goto(t, ThreadUser(t), "row")
       \/ /\ RaiseFromStore(t)
          /\ UNCHANGED row
    /\ UNCHANGED <<tables, _disabled_until, waiting_for_token, world, history, ncmd>>

\* Lines 72-82: the row decides.
check_row(t) ==
    /\ pc[t] = "row"
    /\ row' = [row EXCEPT ![t] = None]
    /\ IF row[t] = None
       THEN /\ ReturnIsEnabled(t, ThreadUser(t), TRUE)
            /\ UNCHANGED _disabled_until
       ELSE IF now < Val(row[t])
            THEN /\ _disabled_until' = cache_put(_disabled_until, ThreadUser(t), Val(row[t]))
                 /\ ReturnIsEnabled(t, ThreadUser(t), FALSE)
            ELSE /\ Goto(t, ThreadUser(t), "enable_db")
                 /\ UNCHANGED _disabled_until
    /\ UNCHANGED <<tables, waiting_for_token, world, history, ncmd>>

\* enable_notifications, lines 44-48: the DELETE and its commit.  The call
\* comes from are_notifications_enabled (labels enable_db, enable_cache) or
\* from enable_notifications_callback (labels cb_enable_db, cb_enable_cache).
enable_db(t) ==
    /\ pc[t] \in {"enable_db", "cb_enable_db"}
    /\ \/ /\ notification_settings' = settings_delete(notification_settings, ThreadUser(t))
          /\ Goto(t, ThreadUser(t),
                  IF pc[t] = "enable_db" THEN "enable_cache" ELSE "cb_enable_cache")
       \/ /\ RaiseFromStore(t)
          /\ UNCHANGED notification_settings
    /\ UNCHANGED <<users, _disabled_until, waiting_for_token, world, row, history, ncmd>>

\* enable_notifications, lines 50-51: the cache entry goes, and the call returns.
enable_cache(t) ==
    /\ pc[t] \in {"enable_cache", "cb_enable_cache"}
    /\ _disabled_until' = cache_del(_disabled_until, ThreadUser(t))
    /\ ReturnIsEnabled(t, ThreadUser(t), TRUE)
    /\ expired' = IF pc[t] = "enable_cache"
                  THEN [expired EXCEPT ![ThreadUser(t)] = TRUE]
                  ELSE expired
    /\ UNCHANGED <<tables, waiting_for_token, world, row, delivered, missed, probe, ncmd>>


(***************************************************************************)
(* The notification cycle: check_notifications, _process_events and        *)
(* _send_notification (thread "cycle").                                    *)
(***************************************************************************)
CurrentUser == Head(cUsers)

\* A scheduler that lets a second instance of the job run beside the first.
max_instances_two == 1 + 1

\* start_bot, lines 594-599: add_job names no max_instances, so the job runs
\* with the scheduler's default of one running instance.
max_instances == 1

\* The interval trigger fires and the scheduler starts the job (start_bot,
\* lines 594-600), which reads the users: line 433.
check_notifications ==
    /\ running < max_instances
    /\ cUsers' = get_all_users(users)
    /\ pc' = [pc EXCEPT !["cycle"] = IF get_all_users(users) = <<>> THEN "idle" ELSE "user"]
    /\ running' = IF get_all_users(users) = <<>> THEN running ELSE running + 1
    /\ UNCHANGED <<tables, _disabled_until, waiting_for_token, world, row, chatLocals,
                   cSession, cPage, cNew, cPending, cSent, cSkipped, history, ncmd>>

\* Lines 435-441: the loop head, with the flag test and the mute check.
loop_head ==
    /\ pc["cycle"] = "user"
    /\ IF ~CurrentUser.notifications_enabled
       THEN /\ pc' = [pc EXCEPT !["cycle"] = "done"]
            /\ UNCHANGED <<tables, _disabled_until, waiting_for_token, world, row,
                           chatLocals, cycleLocals, history>>
       ELSE are_notifications_enabled("cycle", CurrentUser.user_id)
    /\ UNCHANGED ncmd

\* _process_events after the scan, lines 465-466: nothing new ends the call.
AfterScan(new_events) == IF new_events = <<>> THEN "close" ELSE "update_last_event_id"

\* A cycle that goes on to the cursor write without events.
AfterNoEvents_write == "update_last_event_id"

\* check_notifications, lines 447-450: the condition is false, _process_events
\* is not called and the client is closed.
AfterNoEvents == "close"

\* Lines 445-448: the answer to events.list.  _make_request turns a failed
\* request into None; an answer that is not a dictionary raises at line 447.
get_events_returns ==
    /\ pc["cycle"] = "get_events"
    /\ \/ \* None, ok not true, or an empty data list
          /\ pc' = [pc EXCEPT !["cycle"] = AfterNoEvents]
          /\ UNCHANGED <<cPage, cNew>>
       \/ \* ok and a page of events: _process_events scans it
          LET events == get_events(feed[CurrentUser.user_id])
              new_events == new_events_scan(CurrentUser.last_event_id, events)
          IN  /\ events # <<>>
              /\ cPage' = events
              /\ cNew' = new_events
              /\ pc' = [pc EXCEPT !["cycle"] = AfterScan(new_events)]
       \/ \* a malformed answer: the except clause, line 452
          /\ pc' = [pc EXCEPT !["cycle"] = "done"]
          /\ UNCHANGED <<cPage, cNew>>
    /\ UNCHANGED <<tables, _disabled_until, waiting_for_token, world, row, chatLocals,
                   cUsers, cSession, cPending, cSent, cSkipped, running, history, ncmd>>

\* _process_events after the cursor write, lines 472-476.
AfterCursor(events) == IF events = <<>> THEN "close" ELSE "send"

\* Lines 468-473: the cursor write, then the comment events are selected.
\* A failed write raises into the except clause of line 452.
write_cursor ==
    /\ pc["cycle"] = "update_last_event_id"
    /\ \/ /\ users' = update_last_event_id(users, CurrentUser.user_id, cursor_target(cNew))
          /\ cPending' = comment_events_of(cNew)
          /\ pc' = [pc EXCEPT !["cycle"] = AfterCursor(comment_events_of(cNew))]
       \/ /\ pc' = [pc EXCEPT !["cycle"] = "done"]
          /\ UNCHANGED <<users, cPending>>
    /\ UNCHANGED <<notification_settings, _disabled_until, waiting_for_token, world, row,
                   chatLocals, cUsers, cSession, cPage, cNew, cSent, cSkipped, running,
                   history, ncmd>>

\* _is_user_author_or_collaborator, lines 525-529: True for every event.
_is_user_author_or_collaborator(event) == TRUE

\* A failure that ends the loop over the comment events.
DropEvent_ends_loop ==
    /\ cSkipped' = cSkipped \cup {Head(cPending).id}
    /\ cPending' = <<>>
    /\ pc' = [pc EXCEPT !["cycle"] = AfterCursor(<<>>)]
    /\ UNCHANGED <<cSent, delivered>>

\* _send_notification returns without a send: the event is dropped.
DropEvent ==
    /\ cSkipped' = cSkipped \cup {Head(cPending).id}
    /\ cPending' = Tail(cPending)
    /\ pc' = [pc EXCEPT !["cycle"] = AfterCursor(Tail(cPending))]
    /\ UNCHANGED <<cSent, delivered>>

\* _send_notification, lines 498-504: the document id and the document lookup.
get_document_info ==
    /\ pc["cycle"] = "send"
    /\ IF Head(cPending).documentId = None
       THEN DropEvent
       ELSE \/ \* documents.info answered ok
               IF _is_user_author_or_collaborator(Head(cPending))
               THEN /\ pc' = [pc EXCEPT !["cycle"] = "send_message"]
                    /\ UNCHANGED <<cPending, cSent, cSkipped, delivered>>
               ELSE DropEvent
            \/ \* no answer, or ok not true
               DropEvent
    /\ UNCHANGED <<tables, _disabled_until, waiting_for_token, world, row, chatLocals,
                   cUsers, cSession, cPage, cNew, running, marks, ncmd>>

\* The notification that _format_notification renders for an event and the
\* document documents.info returned for event.documentId.
notification(event) == [event_id |-> event.id, document_id |-> Val(event.documentId)]

\* _send_notification, lines 506-523: the message is sent, or the send raises
\* and the exception is logged.
send_message ==
    /\ pc["cycle"] = "send_message"
    /\ \/ /\ cSent' = Append(cSent, notification(Head(cPending)))
          /\ delivered' = [delivered EXCEPT ![CurrentUser.user_id] = @ \cup {Head(cPending).id}]
          /\ cPending' = Tail(cPending)
          /\ pc' = [pc EXCEPT !["cycle"] = AfterCursor(Tail(cPending))]
          /\ UNCHANGED cSkipped
       \/ DropEvent
    /\ UNCHANGED <<tables, _disabled_until, waiting_for_token, world, row, chatLocals,
                   cUsers, cSession, cPage, cNew, running, marks, ncmd>>

\* Line 450 and YonoteAPI.close.
close ==
    /\ pc["cycle"] = "close"
    /\ cSession' = "closed"
    /\ pc' = [pc EXCEPT !["cycle"] = "done"]
    /\ UNCHANGED <<tables, _disabled_until, waiting_for_token, world, row, chatLocals,
                   cUsers, cPage, cNew, cPending, cSent, cSkipped, running, history, ncmd>>

\* The for loop of line 435 moves on; the cycle ends after the last user.
next_user ==
    /\ pc["cycle"] = "done"
    /\ cUsers' = Tail(cUsers)
    /\ cSession' = "none"
    /\ cPage' = <<>>
    /\ cNew' = <<>>
    /\ cPending' = <<>>
    /\ cSent' = <<>>
    /\ cSkipped' = {}
    /\ pc' = [pc EXCEPT !["cycle"] = IF Tail(cUsers) = <<>> THEN "idle" ELSE "user"]
    /\ running' = IF Tail(cUsers) = <<>> THEN running - 1 ELSE running
    /\ UNCHANGED <<tables, _disabled_until, waiting_for_token, world, row, chatLocals,
                   history, ncmd>>

\* The interval trigger fires while max_instances instances of the job run:
\* the scheduler skips the run.
run_skipped ==
    /\ running >= max_instances
    /\ missed' = TRUE
    /\ UNCHANGED <<tables, _disabled_until, waiting_for_token, world, pc, row, chatLocals,
                   cycleLocals, delivered, expired, probe, ncmd>>


(***************************************************************************)
(* The chat handlers (thread "chat").  A handler starts when the           *)
(* dispatcher is idle; the buttons of old messages stay usable, so a       *)
(* handler has no guard beyond those of its code.  start_command,          *)
(* back_to_main_callback, disable_notifications_callback and the reply of  *)
(* handle_message outside the token dialogue change no state.              *)
(***************************************************************************)
ChatStarts ==
    /\ pc["chat"] = "idle"
    /\ ncmd < MaxCommands
    /\ ncmd' = ncmd + 1

\* connect_callback, line 240.
connect_callback(user_id) ==
    /\ ChatStarts
    /\ waiting_for_token' = [waiting_for_token EXCEPT ![user_id] = TRUE]
    /\ UNCHANGED <<tables, _disabled_until, world, pc, row, chatLocals, cycleLocals,
                   history>>

\* handle_message, lines 244-245, and _handle_token_input up to the identity
\* check of line 262.
handle_message(user_id, token) ==
    /\ ChatStarts
    /\ waiting_for_token[user_id]
    /\ pc' = [pc EXCEPT !["chat"] = "get_auth_info"]
    /\ hUser' = user_id
    /\ hArg' = token
    /\ UNCHANGED <<hAuth, hRes>>
    /\ UNCHANGED <<tables, _disabled_until, waiting_for_token, world, row, cycleLocals,
                   history>>

\* What get_auth_info returns: None for a failed request, or the answer's
\* dictionary with ok true or not.
AuthInfos == {None, Some([ok |-> TRUE]), Some([ok |-> FALSE])}

\* An identity check that lets every answer pass.
identity_unchecked(auth_info) == TRUE

\* _handle_token_input, line 264: auth_info and auth_info.get('ok')
identity_ok(auth_info) == auth_info # None /\ Val(auth_info).ok

\* _handle_token_input, lines 262-264: the answer of auth.info and the check.
get_auth_info_returns ==
    /\ pc["chat"] = "get_auth_info"
    /\ \E auth_info \in AuthInfos :
          /\ pc' = [pc EXCEPT !["chat"] = IF identity_ok(auth_info)
                                          THEN "save_user_token"
                                          ELSE "reject_message"]
          /\ hAuth' = auth_info
    /\ UNCHANGED <<tables, _disabled_until, waiting_for_token, world, row, hUser, hArg, hRes,
                   cycleLocals, history, ncmd>>

\* _handle_token_input, lines 288-294: the token is rejected; the user is told
\* so and the client is closed.
token_rejected ==
    /\ pc["chat"] = "reject_message"
    /\ ChatIdle
    /\ UNCHANGED <<tables, _disabled_until, waiting_for_token, world, row, cycleLocals,
                   history, ncmd>>

\* _handle_token_input, lines 266-267.
token_saved ==
    /\ pc["chat"] = "save_user_token"
    /\ \/ /\ users' = save_user_token(users, hUser, hArg)
          /\ waiting_for_token' = [waiting_for_token EXCEPT ![hUser] = FALSE]
       \/ \* the store fails
          UNCHANGED <<users, waiting_for_token>>
    /\ ChatIdle
    /\ UNCHANGED <<notification_settings, _disabled_until, world, row, cycleLocals,
                   history, ncmd>>

\* change_workspace_callback, lines 363-364.
change_workspace_callback(user_id) ==
    /\ ChatStarts
    /\ pc' = [pc EXCEPT !["chat"] = "delete_user"]
    /\ hUser' = user_id
    /\ UNCHANGED <<tables, _disabled_until, waiting_for_token, world, row, hArg, hAuth,
                   hRes, cycleLocals, history>>

user_deleted ==
    /\ pc["chat"] = "delete_user"
    /\ \/ users' = delete_user(users, hUser)
       \/ \* the store fails
          UNCHANGED users
    /\ ChatIdle
    /\ UNCHANGED <<notification_settings, _disabled_until, waiting_for_token, world, row,
                   cycleLocals, history, ncmd>>

\* disable_time_callback, lines 399-401, and disable_notifications, line 31.
disable_time_callback(user_id, callback_data) ==
    /\ ChatStarts
    /\ pc' = [pc EXCEPT !["chat"] = "disable_db"]
    /\ hUser' = user_id
    /\ hArg' = now + hours_map[callback_data]
    /\ UNCHANGED <<hAuth, hRes>>
    /\ expired' = [expired EXCEPT ![user_id] = FALSE]
    /\ UNCHANGED <<tables, _disabled_until, waiting_for_token, world, row, cycleLocals,
                   delivered, missed, probe>>

\* disable_notifications, lines 33-38: the upsert and its commit.
disable_db ==
    /\ pc["chat"] = "disable_db"
    /\ \/ /\ notification_settings' = settings_upsert(notification_settings, hUser, hArg)
          /\ pc' = [pc EXCEPT !["chat"] = "disable_cache"]
          /\ UNCHANGED chatLocals
       \/ \* the store fails
          /\ ChatIdle
          /\ UNCHANGED notification_settings
    /\ UNCHANGED <<users, _disabled_until, waiting_for_token, world, row, cycleLocals,
                   history, ncmd>>

\* disable_notifications, line 40.
disable_cache ==
    /\ pc["chat"] = "disable_cache"
    /\ _disabled_until' = cache_put(_disabled_until, hUser, hArg)
    /\ ChatIdle
    /\ UNCHANGED <<tables, waiting_for_token, world, row, cycleLocals, history, ncmd>>

\* enable_notifications_callback, lines 418-419.
enable_notifications_callback(user_id) ==
    /\ ChatStarts
    /\ Goto("chat", user_id, "cb_enable_db")
    /\ UNCHANGED <<tables, _disabled_until, waiting_for_token, world, row, history>>

\* settings_callback, lines 301-302.
settings_callback(user_id) ==
    /\ ChatStarts
    /\ are_notifications_enabled("chat", user_id)

\* settings_callback, lines 309-338: the time left is shown.
settings_shown ==
    /\ pc["chat"] = "get_disabled_until"
    /\ ChatIdle
    /\ UNCHANGED <<tables, _disabled_until, waiting_for_token, world, row, cycleLocals,
                   history, ncmd>>

\* Database.update_notifications_enabled, called from outside the handlers.
set_notifications_enabled(user_id, enabled) ==
    /\ ncmd < MaxCommands
    /\ ncmd' = ncmd + 1
    /\ users' = update_notifications_enabled(users, user_id, enabled)
    /\ UNCHANGED <<notification_settings, _disabled_until, waiting_for_token, world, pc,
                   row, chatLocals, cycleLocals, history>>

(***************************************************************************)
(* The environment: the workspace publishes an event, an hour passes.      *)
(***************************************************************************)
RECURSIVE SumLen(_, _)
SumLen(f, u) == IF u > NumUsers THEN 0 ELSE Len(f[u]) + SumLen(f, u + 1)

\* The number of events published so far.
Published == SumLen(feed, 1)

Publish(user_id) ==
    /\ Published < MaxEvents
    /\ \E e \in FeedEvent(Len(feed[user_id]) + 1) :
          feed' = [feed EXCEPT ![user_id] = Append(@, e)]
    /\ UNCHANGED <<tables, _disabled_until, waiting_for_token, now, pc, row, chatLocals,
                   cycleLocals, history, ncmd>>

Tock ==
    /\ now < MaxTime
    /\ now' = now + 1
    /\ UNCHANGED <<tables, _disabled_until, waiting_for_token, feed, pc, row, chatLocals,
                   cycleLocals, history, ncmd>>

\* The process stops and starts again: NotificationSettings() is built with an
\* empty cache (settings.py, line 15) and the dispatcher's user_data is empty;
\* the database file is kept.
restart ==
    /\ \A t \in Threads : pc[t] = "idle"
    /\ _disabled_until' = [u \in UserIds |-> None]
    /\ waiting_for_token' = [u \in UserIds |-> FALSE]
    /\ UNCHANGED <<tables, world, pc, row, chatLocals, cycleLocals, history, ncmd>>

(***************************************************************************)
(* The bot.                                                                *)
(***************************************************************************)
Cycle ==
    \/ check_notifications
    \/ loop_head
    \/ get_events_returns
    \/ write_cursor
    \/ get_document_info
    \/ send_message
    \/ close
    \/ next_user

MuteStore ==
    \E t \in Threads :
        \/ select_row(t)
        \/ check_row(t)
        \/ enable_db(t)
        \/ enable_cache(t)

Chat ==
    \/ \E u \in UserIds : connect_callback(u)
    \/ \E u \in UserIds, tok \in Tokens : handle_message(u, tok)
    \/ get_auth_info_returns
    \/ token_saved
    \/ token_rejected
    \/ \E u \in UserIds : change_workspace_callback(u)
    \/ user_deleted
    \/ \E u \in UserIds, d \in DOMAIN hours_map : disable_time_callback(u, d)
    \/ disable_db
    \/ disable_cache
    \/ \E u \in UserIds : enable_notifications_callback(u)
    \/ \E u \in UserIds : settings_callback(u)
    \/ settings_shown
    \/ \E u \in UserIds, b \in BOOLEAN : set_notifications_enabled(u, b)

Environment ==
    \/ \E u \in UserIds : Publish(u)
    \/ Tock

Next == Cycle \/ MuteStore \/ Chat \/ Environment

Spec == Init /\ [][Next]_vars


(***************************************************************************)
(* The classifier on its own.  ClassifySpec draws a stored cursor and a    *)
(* page from bounded sets (any order of ids, repeated ids included) and    *)
(* runs _process_events on that page, with every document lookup and send  *)
(* succeeding, as often as wanted: the second run sees the cursor the      *)
(* first one wrote.                                                        *)
(***************************************************************************)
\* Names of the input events: a fixed comment name, a name that is none, a
\* fixed name in another case, and a name that only contains a keyword.
PageNames == {"comments.create", "documents.update", "Comment.Resolve",
              "revisions.KOMMENTARIY"}

PageEvent ==
    { [id |-> i, name |-> n, documentId |-> Some(i)] : i \in 1..MaxIds, n \in PageNames }

Pages == UNION { [1..n -> PageEvent] : n \in 0..MaxPageLen }

InitClassify ==
    /\ \E c \in {None} \cup {Some(i) : i \in 1..MaxIds} :
          users = [u \in UserIds |->
                     IF u = 1
                     THEN Some([yonote_token |-> 1, notifications_enabled |-> TRUE,
                                last_event_id |-> c])
                     ELSE None]
    /\ cPage \in Pages
    /\ notification_settings = [u \in UserIds |-> None]
    /\ _disabled_until = [u \in UserIds |-> None]
    /\ waiting_for_token = [u \in UserIds |-> FALSE]
    /\ now = 0
    /\ feed = [u \in UserIds |-> <<>>]
    /\ pc = [t \in Threads |-> "idle"]
    /\ row = [t \in Threads |-> None]
    /\ hUser = 0
    /\ hArg = 0
    /\ hAuth = None
    /\ hRes = None
    /\ cUsers = <<>>
    /\ cSession = "none"
    /\ cNew = <<>>
    /\ cPending = <<>>
    /\ cSent = <<>>
    /\ cSkipped = {}
    /\ delivered = [u \in UserIds |-> {}]
    /\ ncmd = 0
    /\ running = 0
    /\ missed = FALSE
    /\ expired = [u \in UserIds |-> FALSE]
    /\ ret = NoResult
    /\ ref_rows = [u \in UserIds |-> None]

\* The notifications _send_notification sends for a list of comment events.
notifications_of(events) ==
    LET with_document ==
            SelectSeq(events, LAMBDA e : e.documentId # None
                                          /\ _is_user_author_or_collaborator(e))
    IN  [i \in 1..Len(with_document) |-> notification(with_document[i])]

\* _process_events(user, events, api), lines 455-476, run to its end.
_process_events ==
    LET user == Head(get_all_users(users))
        new_events == new_events_scan(user.last_event_id, cPage)
        sent == notifications_of(comment_events_of(new_events))
    IN  /\ cUsers' = <<user>>
        /\ cNew' = new_events
        /\ users' = IF new_events = <<>> THEN users
                    ELSE update_last_event_id(users, user.user_id, cursor_target(new_events))
        /\ cSent' = sent
        /\ delivered' = [delivered EXCEPT ![user.user_id] =
                            @ \cup {sent[i].event_id : i \in 1..Len(sent)}]
    /\ UNCHANGED <<notification_settings, _disabled_until, waiting_for_token, world, pc,
                   row, chatLocals, cSession, cPage, cPending, cSkipped, running, marks,
                   ncmd>>

NextClassify == _process_events

ClassifySpec == InitClassify /\ [][NextClassify]_vars


(***************************************************************************)
(* Properties of the classifier (ClassifySpec).                            *)
(***************************************************************************)
\* The lengths n for which the first n events of page P avoid the cursor c.
CursorFreeLengths(c, P) ==
    { n \in 0..Len(P) : \A i \in 1..n : c = None \/ P[i].id # Val(c) }

Longest(S) == CHOOSE n \in S : \A m \in S : m <= n

\* The page has been processed: cUsers holds the user record the run was given.
Processed == cUsers # <<>>

\* C4.  Dedup prefix: for every stored cursor c (possibly absent) and every
\* fetched page P, new_events is the longest prefix of P that holds no event
\* whose id is c; when c is absent or no event of P has id c, it is all of P.
C4_DedupPrefix ==
    Processed =>
        LET c == Head(cUsers).last_event_id
        IN  /\ cNew = SubSeq(cPage, 1, Longest(CursorFreeLengths(c, cPage)))
            /\ (c = None \/ \A i \in 1..Len(cPage) : cPage[i].id # Val(c)) => cNew = cPage

\* C4 witness: a page whose second of three events is at the cursor, so that
\* exactly the first event is new.
C4_Witness ==
    /\ Processed
    /\ Len(cPage) = 3
    /\ Head(cUsers).last_event_id = Some(cPage[2].id)
    /\ cPage[1].id # cPage[2].id
    /\ Len(cNew) = 1

\* The two strings are equal up to the case of their letters.
SameIgnoringCase(a, b) == Lower(a) = Lower(b)

\* String s contains string sub up to the case of the letters.
ContainsIgnoringCase(s, sub) ==
    \E i \in 1..Len(s) :
        i + Len(sub) - 1 <= Len(s) /\ SameIgnoringCase(SubSeq(s, i, i + Len(sub) - 1), sub)

\* The event's name is a fixed comment name or contains a comment keyword.
CommentRelated(e) ==
    \/ \E n \in comment_events : SameIgnoringCase(e.name, n)
    \/ ContainsIgnoringCase(e.name, "comment")
    \/ ContainsIgnoringCase(e.name, "kommentariy")

\* C24.  Comment classification: the notifications of a run are those of the
\* new events whose name is a fixed comment name or contains a comment keyword,
\* compared without regard to case, in the order of the list (of the input
\* names, all but documents.update); the other new events get no notification,
\* and the cursor is the id of the first new event whatever its name.
C24_Classification ==
    Processed =>
        /\ cSent = notifications_of(SelectSeq(cNew, CommentRelated))
        /\ \A i \in 1..Len(cNew) : CommentRelated(cNew[i]) <=> cNew[i].name # "documents.update"
        /\ cNew # <<>> => Val(users[1]).last_event_id = Some(cNew[1].id)

\* C24 witness: of three new events the first is no comment event, the second
\* has a fixed name in another case and the third only contains a keyword; the
\* last two were notified and the cursor is the id of the first.
C24_Witness ==
    /\ Processed
    /\ Len(cNew) = 3
    /\ cNew[1].name = "documents.update"
    /\ cNew[2].name = "Comment.Resolve"
    /\ cNew[3].name = "revisions.KOMMENTARIY"
    /\ Len(cSent) = 2
    /\ cSent[1].event_id = cNew[2].id
    /\ cSent[2].event_id = cNew[3].id
    /\ Val(users[1]).last_event_id = Some(cNew[1].id)

\* C5.  Classifier idempotence: once a non-empty page has been processed and
\* the cursor updated, processing the same page again finds no new event,
\* writes no cursor and sends no notification.
C5_Idempotent ==
    [][(Processed /\ cPage # <<>>)
          => (cNew' = <<>> /\ users' = users /\ cSent' = <<>> /\ delivered' = delivered)]_vars

\* C5 witness: the second run of a page whose first run sent a notification
\* and moved the cursor to the page's first event.
C5_Witness ==
    /\ Processed
    /\ cPage # <<>>
    /\ delivered[1] # {}
    /\ cNew = <<>>
    /\ cSent = <<>>
    /\ Head(cUsers).last_event_id = Some(cPage[1].id)
    /\ Val(users[1]).last_event_id = Some(cPage[1].id)


(***************************************************************************)
(* Properties of the bot (Spec).                                           *)
(***************************************************************************)
\* A mute marker of user u, in the table or in the cache, lies in the future.
MuteActive(u) ==
    \/ notification_settings[u] # None /\ now < Val(notification_settings[u])
    \/ _disabled_until[u] # None /\ now < Val(_disabled_until[u])

\* The step sends a notification to the cycle's current user.
Sends == Len(cSent') = Len(cSent) + 1

\* C1.  Mute suppression at send time: no notification is delivered to a user
\* at a moment when a mute marker of that user has disabled_until in the future.
C1_NoSendWhileMuted ==
    [][Sends => ~MuteActive(CurrentUser.user_id)]_vars

Cursor(tbl, u) == Val(tbl[u]).last_event_id

\* C2.  Cursor monotonicity: while a user's record exists, a cursor that is set
\* stays set and moves only to an id of the user's feed that is not older.
C2_CursorMonotone ==
    [][\A u \in UserIds :
          (users[u] # None /\ users'[u] # None /\ Cursor(users, u) # None)
             => /\ Cursor(users', u) # None
                /\ Val(Cursor(users', u)) >= Val(Cursor(users, u))
                /\ Val(Cursor(users', u)) \in Ids(feed'[u])]_vars

\* The step deletes the record of the chat handler's user.
DeletesUser ==
    /\ pc["chat"] = "delete_user"
    /\ users[hUser] # None
    /\ users'[hUser] = None

\* C3.  Deletion cascades to the mute window: once a user's record is deleted,
\* neither a mute row nor a cache entry of that user remains.
C3_DeleteCascades ==
    [][DeletesUser =>
          (notification_settings'[hUser] = None /\ _disabled_until'[hUser] = None)]_vars

\* The handling of the current user is over: the loop is about to move on.
UserDone == pc["cycle"] = "done"

\* The current user was not skipped and events.list returned the page cPage.
Fetched == UserDone /\ cPage # <<>>

\* What the cycle owes the current user: one notification, for its own
\* document, for each comment event of the new-events prefix of the page.
ExpectedNotifications ==
    LET c == CurrentUser.last_event_id
        prefix == SubSeq(cPage, 1, Longest(CursorFreeLengths(c, cPage)))
        due == SelectSeq(prefix, LAMBDA e : _is_comment_event(e))
    IN  [i \in 1..Len(due) |-> [event_id |-> due[i].id, document_id |-> Val(due[i].documentId)]]

\* Every comment event of the page carries a document id, and no lookup and
\* no send failed.
AllDeliverable ==
    /\ cSkipped = {}
    /\ \A i \in 1..Len(cPage) :
          _is_comment_event(cPage[i]) => cPage[i].documentId # None

\* C6 as stated.  Notification count per cycle: with every document lookup and
\* send succeeding and every comment event carrying a document id, the cycle
\* sends the user exactly the expected notifications.
C6_CountAsStated ==
    (Fetched /\ AllDeliverable) => cSent = ExpectedNotifications

\* C6 as amended: the same, when the cursor write succeeds as well (the
\* processing of the user ran to its end, where the client is closed).
C6_Count ==
    (Fetched /\ AllDeliverable /\ cSession = "closed") => cSent = ExpectedNotifications

\* C6 witness: a page of two new events, the older one a comment event and the
\* newer one not, handled to the end with one notification, for the older one.
C6_Witness ==
    /\ Fetched
    /\ AllDeliverable
    /\ cSession = "closed"
    /\ Len(cNew) = 2
    /\ ~_is_comment_event(cNew[1])
    /\ cSent = <<[event_id |-> cNew[2].id, document_id |-> Val(cNew[2].documentId)]>>

\* C7.  Per-user failure isolation: a cycle ends only after the last of the
\* users it enumerated, whatever failed on the way.
C7_FailureIsolation ==
    [][(pc["cycle"] # "idle" /\ pc'["cycle"] = "idle") => Len(cUsers) <= 1]_vars

\* C8.  Client release on every path: when the cycle moves on from a user, no
\* client session of that user is left open.
C8_ClientClosed ==
    UserDone => cSession # "open"

\* A mute-store call (disable, enable, is_enabled) for user u is in progress.
MuteCallInProgress(u) ==
    \E t \in Threads :
        /\ pc[t] \in {"select", "row", "enable_db", "enable_cache", "cb_enable_db",
                      "cb_enable_cache", "disable_db", "disable_cache"}
        /\ ThreadUser(t) = u

\* C9.  The mute cache never contradicts the store: with no mute-store call for
\* a user in progress, a cache entry of that user has a row with the same value.
C9_CacheAgreesWithStore ==
    \A u \in UserIds :
        (~MuteCallInProgress(u) /\ _disabled_until[u] # None)
            => notification_settings[u] = _disabled_until[u]

\* The step is a return of False from are_notifications_enabled(u): the cycle
\* skips the user (line 441), or settings_callback goes on to line 309.
IsEnabledReturnsFalse(u) ==
    \/ /\ pc["cycle"] \in {"user", "row"}
       /\ CurrentUser.user_id = u
       /\ CurrentUser.notifications_enabled
       /\ pc'["cycle"] = "done"
    \/ /\ pc["chat"] \in {"idle", "row"}
       /\ pc'["chat"] = "get_disabled_until"
       /\ hUser' = u

\* C11.  Mute monotonic expiry: once are_notifications_enabled(u) has returned
\* True on a window that has passed, every later call returns True as long as
\* no disable for u has been called since.
C11_MonotonicExpiry ==
    [][\A u \in UserIds : expired[u] => ~IsEnabledReturnsFalse(u)]_vars

\* The step gives user u a record it had not, or a record with another token.
TokenWritten(u) ==
    /\ users'[u] # None
    /\ users[u] = None \/ Val(users'[u]).yonote_token # Val(users[u]).yonote_token

\* C14.  Invalid credential leaves state unchanged: the steps of a handler
\* whose token failed the identity check change no user record and no mute
\* window, and a user gets a record or a new token only from the handler of
\* that user whose identity check succeeded.
C14_InvalidCredential ==
    [][/\ (/\ pc'["chat"] # pc["chat"]
           /\ "reject_message" \in {pc["chat"], pc'["chat"]})
            => UNCHANGED <<users, notification_settings, _disabled_until>>
       /\ \A u \in UserIds :
            TokenWritten(u) => /\ pc["chat"] = "save_user_token"
                               /\ hUser = u
                               /\ hAuth # None
                               /\ Val(hAuth).ok]_vars

\* C14 witness: the token of a user without a record was answered with ok
\* not true; the handler is about to tell the user, and no record exists.
C14_Witness ==
    /\ pc["chat"] = "reject_message"
    /\ hAuth = Some([ok |-> FALSE])
    /\ users[hUser] = None
    /\ waiting_for_token[hUser]

\* The cycle is at the test that skips its current user: the flag is off, or
\* the mute check is about to return False from the cache or from the row.
SkipsUser ==
    \/ /\ pc["cycle"] = "user"
       /\ \/ ~CurrentUser.notifications_enabled
          \/ /\ _disabled_until[CurrentUser.user_id] # None
             /\ now < Val(_disabled_until[CurrentUser.user_id])
    \/ /\ pc["cycle"] = "row"
       /\ row["cycle"] # None
       /\ now < Val(row["cycle"])

\* C20.  Skipped users are untouched: the cycle's step for a user whose flag
\* is off or whose mute check returns False goes on to the next user with no
\* client opened and no page fetched, no notification sent and no record
\* changed, and the step after it is the loop's move to the next user.
C20_SkippedUntouched ==
    [][/\ (SkipsUser /\ pc'["cycle"] # pc["cycle"])
            => /\ pc'["cycle"] = "done"
               /\ cSession' = "none" /\ cPage' = <<>> /\ cNew' = <<>>
               /\ cSent' = <<>>
               /\ users' = users
               /\ delivered' = delivered
       /\ (pc["cycle"] = "done" /\ pc'["cycle"] # "done")
            => /\ pc'["cycle"] \in {"user", "idle"}
               /\ users' = users
               /\ delivered' = delivered]_vars

\* C20 witness: the cycle has skipped a muted user whose feed holds an event
\* that was never delivered; no client was opened and the cursor is absent.
C20_Witness ==
    /\ pc["cycle"] = "done"
    /\ cSession = "none"
    /\ CurrentUser.notifications_enabled
    /\ notification_settings[CurrentUser.user_id] # None
    /\ now < Val(notification_settings[CurrentUser.user_id])
    /\ feed[CurrentUser.user_id] # <<>>
    /\ delivered[CurrentUser.user_id] = {}
    /\ users[CurrentUser.user_id] # None
    /\ Cursor(users, CurrentUser.user_id) = None

\* The cycle got no usable answer to events.list for its current user: the
\* client is open and no page was taken.
NoEventsFetched ==
    /\ pc["cycle"] \in {"close", "done"}
    /\ cSession # "none"
    /\ cPage = <<>>

\* C21.  Event-fetch failure leaves state unchanged: an answer to events.list
\* that is None, not ok or without data takes the cycle to the close of the
\* client with no record changed and nothing sent, and from there the cycle
\* moves to the next user without a cursor write or a send.
C21_FetchFailure ==
    [][/\ (pc["cycle"] = "get_events" /\ pc'["cycle"] # "get_events" /\ cPage' = <<>>)
            => /\ pc'["cycle"] \in {"close", "done"}
               /\ users' = users
               /\ cSent' = <<>>
               /\ delivered' = delivered
       /\ (NoEventsFetched /\ pc'["cycle"] # pc["cycle"])
            => /\ pc'["cycle"] \in {"done", "user", "idle"}
               /\ users' = users
               /\ cSent' = <<>>
               /\ delivered' = delivered]_vars

\* C21 witness: the listing failed for a user whose feed holds an undelivered
\* event; the client is closed, the cursor is absent and nothing was sent.
C21_Witness ==
    /\ pc["cycle"] = "done"
    /\ cSession = "closed"
    /\ cPage = <<>>
    /\ feed[CurrentUser.user_id] # <<>>
    /\ users[CurrentUser.user_id] # None
    /\ Cursor(users, CurrentUser.user_id) = None
    /\ delivered[CurrentUser.user_id] = {}
    /\ cSent = <<>>

\* C25.  No delivery after disconnect: a notification is sent to a user only
\* while the user has a record in the users table (the record is deleted by
\* the change of workspace and comes back when the user connects again).
C25_NoDeliveryAfterDisconnect ==
    [][Sends => users[CurrentUser.user_id] # None]_vars

\* The mute window of user u has run out: the row written by the latest
\* disable call holds a deadline that is not in the future, and no disable
\* call for u is in progress.
WindowOver(u) ==
    /\ notification_settings[u] # None
    /\ now >= Val(notification_settings[u])
    /\ ~(pc["chat"] \in {"disable_db", "disable_cache"} /\ hUser = u)

\* C26.  The mute expires by itself: a mute check of the cycle that starts at
\* or after the deadline of the window of a connected, enabled user does not
\* skip the user.
C26_SelfExpiry ==
    [][(/\ pc["cycle"] = "user"
        /\ CurrentUser.notifications_enabled
        /\ users[CurrentUser.user_id] # None
        /\ WindowOver(CurrentUser.user_id))
          => pc'["cycle"] # "done"]_vars

(***************************************************************************)
(* The mute store under the chat handlers alone: disable, enable and       *)
(* is_enabled calls made one after another, as the hours pass and the      *)
(* process is restarted between calls.                                     *)
(***************************************************************************)
NextMute ==
    \/ \E u \in UserIds, d \in DOMAIN hours_map : disable_time_callback(u, d)
    \/ disable_db
    \/ disable_cache
    \/ \E u \in UserIds : enable_notifications_callback(u)
    \/ \E u \in UserIds : settings_callback(u)
    \/ settings_shown
    \/ select_row("chat")
    \/ check_row("chat")
    \/ enable_db("chat")
    \/ enable_cache("chat")
    \/ restart
    \/ Tock

MuteSpec == Init /\ [][NextMute]_vars

\* The step is a True return of are_notifications_enabled to the chat handler:
\* from the row that is absent (line 82) or after enable_notifications (lines
\* 62 and 80).
IsEnabledReturnsTrue ==
    /\ pc["chat"] \in {"row", "enable_cache"}
    /\ pc'["chat"] = "idle"

\* C23.  Lazy expiry deletes the marker: when a call of
\* are_notifications_enabled for user u returns True, with no other call
\* running beside it, u has no row in notification_settings and no cache entry.
C23_LazyExpiry ==
    [][IsEnabledReturnsTrue
          => /\ notification_settings'[hUser] = None
             /\ _disabled_until'[hUser] = None]_vars

\* C23 witness: the one-hour mute of a user has run out, a call found the
\* expired marker and returned True, and row and cache entry are gone.
C23_Witness ==
    \E u \in UserIds :
        /\ expired[u]
        /\ pc["chat"] = "idle"
        /\ now = 1
        /\ notification_settings[u] = None
        /\ _disabled_until[u] = None

\* C12.  Disable overwrites, never stacks: a disable call computes
\* disabled_until as the time of the call plus its duration, and when it
\* completes the user's one row and one cache entry both hold that value,
\* whatever window an earlier disable left there.
C12_DisableOverwrites ==
    [][/\ (pc["chat"] = "idle" /\ pc'["chat"] = "disable_db")
            => \E d \in DOMAIN hours_map : hArg' = now + hours_map[d]
       /\ (pc["chat"] = "disable_cache" /\ pc'["chat"] = "idle")
            => /\ notification_settings'[hUser] = Some(hArg)
               /\ _disabled_until'[hUser] = Some(hArg)]_vars

\* C12 witness: a second, shorter disable of a user has overwritten the row
\* of the first, longer one and is about to overwrite the cache entry, which
\* still holds the first window.
C12_Witness ==
    /\ pc["chat"] = "disable_cache"
    /\ notification_settings[hUser] = Some(hArg)
    /\ _disabled_until[hUser] # None
    /\ Val(_disabled_until[hUser]) > hArg
    /\ ncmd = MaxCommands

(***************************************************************************)
(* The scheduler and the cycle, with the runs the scheduler skips.  No     *)
(* chat command is issued.                                                 *)
(***************************************************************************)
NextScheduler ==
    \/ Cycle
    \/ run_skipped
    \/ select_row("cycle")
    \/ check_row("cycle")
    \/ Environment

SchedulerSpec == Init /\ [][NextScheduler]_vars

NextDelivery ==
    \/ Cycle
    \/ select_row("cycle")
    \/ check_row("cycle")
    \/ Environment

DeliverySpec ==
    /\ Init
    /\ [][NextDelivery]_vars
    /\ WF_vars(Cycle)
    /\ WF_vars(select_row("cycle") \/ check_row("cycle"))

\* The classifier has reported the comment event id, which carries a document
\* id, as new for user u: it is the next one _send_notification is called for.
ReportedNew(u, id) ==
    /\ pc["cycle"] = "send"
    /\ CurrentUser.user_id = u
    /\ Head(cPending).id = id
    /\ Head(cPending).documentId # None

\* C10.  Delivery is at-least-once: a comment event reported as new for a user
\* is delivered to that user in that cycle or a later one.
C10_AtLeastOnce ==
    \A u \in UserIds : \A id \in 1..MaxEvents :
        ReportedNew(u, id) ~> (id \in delivered[u])

(***************************************************************************)
(* The cycle on a long feed.  No chat command is issued, so no user        *)
(* disconnects or reconnects, and the scheduler runs one cycle at a time.  *)
(* The feeds are append-only and take up to MaxFeed events, more than a    *)
(* page holds, so that the event at the cursor can leave the page.         *)
(***************************************************************************)
PublishLong(user_id) ==
    /\ Published < MaxFeed
    /\ \E e \in FeedEvent(Len(feed[user_id]) + 1) :
          feed' = [feed EXCEPT ![user_id] = Append(@, e)]
    /\ UNCHANGED <<tables, _disabled_until, waiting_for_token, now, pc, row, chatLocals,
                   cycleLocals, history, ncmd>>

NextFeed ==
    \/ Cycle
    \/ select_row("cycle")
    \/ check_row("cycle")
    \/ \E u \in UserIds : PublishLong(u)
    \/ Tock

FeedSpec == Init /\ [][NextFeed]_vars

\* The ids of the events the notifications of this cycle were sent for.
SentIds == {cSent[i].event_id : i \in 1..Len(cSent)}

\* C22.  A failure skips one event only: an event that was dropped (no
\* document id, a failed lookup, a failed send) is not among the sent ones nor
\* pending again; through the delivery every comment event of the new-events
\* list is dropped, sent or still pending, and when the client is closed none
\* is pending.
C22_SkipOneOnly ==
    /\ (pc["cycle"] \in {"send", "send_message"}
          \/ (pc["cycle"] \in {"close", "done"} /\ cSession = "closed" /\ cNew # <<>>))
         => /\ Ids(comment_events_of(cNew)) = cSkipped \cup SentIds \cup Ids(cPending)
            /\ cSkipped \cap SentIds = {}
            /\ cSkipped \cap Ids(cPending) = {}
    /\ pc["cycle"] \in {"close", "done"} => cPending = <<>>
    /\ pc["cycle"] \in {"send", "send_message"} => cPending # <<>>

\* C22 witness: the first of two comment events was dropped and the second
\* one was sent in the same cycle.
C22_Witness ==
    /\ pc["cycle"] = "close"
    /\ Len(cNew) = 2
    /\ cSkipped = {cNew[1].id}
    /\ SentIds = {cNew[2].id}

C18_CursorBeforeDelivery ==
    pc["cycle"] \in {"send", "send_message"}
        => /\ cNew # <<>>
           /\ Cursor(users, CurrentUser.user_id) = Some(cNew[1].id)
           /\ CurrentUser.last_event_id # Some(cNew[1].id)

\* C18 witness: the first send of a cycle is due, nothing has been sent to the
\* user in this cycle, and the table holds the new cursor in place of an
\* older one.
C18_Witness ==
    /\ pc["cycle"] = "send_message"
    /\ cSent = <<>>
    /\ cSkipped = {}
    /\ CurrentUser.last_event_id # None
    /\ Cursor(users, CurrentUser.user_id) = Some(cNew[1].id)
    /\ Val(CurrentUser.last_event_id) < cNew[1].id

\* C19.  No duplicate delivery: a notification is never sent to a user for an
\* event id that was delivered to that user before.
C19_NoDuplicate ==
    [][Sends => Head(cPending).id \notin delivered[CurrentUser.user_id]]_vars

\* C19 witness: the user got event 1; three more events were published, the
\* cursor's event left the page, and the next cycle delivered events 4 and 3.
C19_Witness ==
    \E u \in UserIds :
        /\ Len(feed[u]) = MaxFeed
        /\ delivered[u] = {1, 3, 4}
        /\ pc["cycle"] = "close"

(***************************************************************************)
(* The mute store on its own: calls of disable_notifications,              *)
(* enable_notifications, are_notifications_enabled and get_disabled_until  *)
(* made one after another, each run to its end, while the hours pass and   *)
(* the process is restarted between calls.  A mute store without a cache   *)
(* (ref_rows) is given the same calls; ret holds what the latest call      *)
(* returned and what the store without a cache returned.                   *)
(***************************************************************************)
\* A store: the table notification_settings and the cache.
Store(tbl, cache) == [rows |-> tbl, cache |-> cache]

\* disable_notifications(user_id, hours) at time t, lines 29-40.
disable_notifications(S, user_id, hours, t) ==
    Store(settings_upsert(S.rows, user_id, t + hours), cache_put(S.cache, user_id, t + hours))

\* enable_notifications(user_id), lines 42-51.
enable_notifications(S, user_id) ==
    Store(settings_delete(S.rows, user_id), cache_del(S.cache, user_id))

\* are_notifications_enabled(user_id) at time t, lines 53-82: the value
\* returned and the store the call leaves.
is_enabled(S, user_id, t) ==
    IF S.cache[user_id] # None
    THEN IF t < Val(S.cache[user_id])
         THEN [result |-> FALSE, store |-> S]
         ELSE [result |-> TRUE, store |-> enable_notifications(S, user_id)]
    ELSE IF S.rows[user_id] # None
         THEN IF t < Val(S.rows[user_id])
              THEN [result |-> FALSE,
                    store |-> Store(S.rows, cache_put(S.cache, user_id, Val(S.rows[user_id])))]
              ELSE [result |-> TRUE, store |-> enable_notifications(S, user_id)]
         ELSE [result |-> TRUE, store |-> S]

\* are_notifications_enabled of a store without a cache: the row decides, and
\* an expired row is deleted.
ref_is_enabled(tbl, user_id, t) ==
    IF tbl[user_id] # None /\ t < Val(tbl[user_id])
    THEN [result |-> FALSE, rows |-> tbl]
    ELSE [result |-> TRUE, rows |-> settings_delete(tbl, user_id)]

TheStore == Store(notification_settings, _disabled_until)

\* What a call on the mute store leaves alone.
StoreFrame ==
    UNCHANGED <<users, waiting_for_token, world, pc, row, chatLocals, cycleLocals,
                delivered, missed, expired, ncmd>>

call_disable_notifications(user_id, callback_data) ==
    LET S == disable_notifications(TheStore, user_id, hours_map[callback_data], now)
    IN  /\ notification_settings' = S.rows
        /\ _disabled_until' = S.cache
        /\ ref_rows' = settings_upsert(ref_rows, user_id, now + hours_map[callback_data])
        /\ ret' = NoResult
        /\ StoreFrame

call_enable_notifications(user_id) ==
    LET S == enable_notifications(TheStore, user_id)
    IN  /\ notification_settings' = S.rows
        /\ _disabled_until' = S.cache
        /\ ref_rows' = settings_delete(ref_rows, user_id)
        /\ ret' = NoResult
        /\ StoreFrame

call_are_notifications_enabled(user_id) ==
    LET r == is_enabled(TheStore, user_id, now)
        ref == ref_is_enabled(ref_rows, user_id, now)
    IN  /\ notification_settings' = r.store.rows
        /\ _disabled_until' = r.store.cache
        /\ ref_rows' = ref.rows
        /\ ret' = [op |-> "is_enabled", user |-> user_id, impl |-> r.result, ref |-> ref.result]
        /\ StoreFrame

call_get_disabled_until(user_id) ==
    /\ ret' = [op |-> "get_disabled_until", user |-> user_id,
               impl |-> get_disabled_until(_disabled_until, notification_settings, user_id),
               ref |-> ref_rows[user_id]]
    /\ UNCHANGED <<notification_settings, _disabled_until, ref_rows>>
    /\ StoreFrame

\* An hour passes on the clock of the mute store.
Hour ==
    /\ now < MaxHours
    /\ now' = now + 1
    /\ UNCHANGED <<tables, _disabled_until, waiting_for_token, feed, pc, row, chatLocals,
                   cycleLocals, history, ncmd>>

NextStore ==
    \/ \E u \in UserIds, d \in DOMAIN hours_map : call_disable_notifications(u, d)
    \/ \E u \in UserIds : call_enable_notifications(u)
    \/ \E u \in UserIds : call_are_notifications_enabled(u)
    \/ \E u \in UserIds : call_get_disabled_until(u)
    \/ restart
    \/ Hour

StoreSpec == Init /\ [][NextStore]_vars

\* C27.  Cache transparency: what are_notifications_enabled and
\* get_disabled_until return is what a mute store without a cache returns for
\* the same sequence of calls, hours and restarts, and both hold the same rows.
C27_CacheTransparent ==
    /\ ret.impl = ret.ref
    /\ notification_settings = ref_rows

\* C27 witness: a four-hour mute was set at hour 1 and a restart emptied the
\* cache; at hour 2 get_disabled_until reported hour 5 from the row.
C27_Witness ==
    \E u \in UserIds :
        /\ ret.op = "get_disabled_until"
        /\ ret.impl = Some(5)
        /\ now = 2
        /\ notification_settings[u] = Some(5)
        /\ _disabled_until[u] = None

(***************************************************************************)
(* The calls on a mute store in any state: the rows and the cache hold any *)
(* ends of a window, the same or not (the cycle's check beside a handler   *)
(* leaves a cache entry that differs from the row or has no row, and a     *)
(* restart leaves a row without a cache entry).                            *)
(***************************************************************************)
Ends == {None} \cup {Some(hours_map[d]) : d \in {"disable_1h", "disable_4h"}}

InitGet ==
    /\ users \in [UserIds -> {None} \cup
                    {Some([yonote_token |-> tok, notifications_enabled |-> TRUE,
                           last_event_id |-> None]) : tok \in Tokens}]
    /\ notification_settings \in [UserIds -> Ends]
    /\ _disabled_until \in [UserIds -> Ends]
    /\ ref_rows = notification_settings
    /\ waiting_for_token = [u \in UserIds |-> FALSE]
    /\ now = 0
    /\ feed = [u \in UserIds |-> <<>>]
    /\ pc = [t \in Threads |-> "idle"]
    /\ row = [t \in Threads |-> None]
    /\ hUser = 0
    /\ hArg = 0
    /\ hAuth = None
    /\ hRes = None
    /\ cUsers = <<>>
    /\ cSession = "none"
    /\ cPage = <<>>
    /\ cNew = <<>>
    /\ cPending = <<>>
    /\ cSent = <<>>
    /\ cSkipped = {}
    /\ delivered = [u \in UserIds |-> {}]
    /\ ncmd = 0
    /\ running = 0
    /\ missed = FALSE
    /\ expired = [u \in UserIds |-> FALSE]
    /\ ret = NoResult

GetSpec == InitGet /\ [][NextStore]_vars

\* The step is a return of get_disabled_until.
GetReturns == ret' # ret /\ ret'.op = "get_disabled_until"

\* C29.  get_disabled_until is read-only: a call get_disabled_until(u) leaves
\* the rows of notification_settings and the cache as they were, and returns
\* the cache entry of u when there is one, else the value of u's row, else
\* nothing.
C29_ReadOnly ==
    [][GetReturns =>
          /\ notification_settings' = notification_settings
          /\ _disabled_until' = _disabled_until
          /\ ret'.impl = IF _disabled_until[ret'.user] # None
                         THEN _disabled_until[ret'.user]
                         ELSE IF notification_settings[ret'.user] # None
                              THEN notification_settings[ret'.user]
                              ELSE None]_vars

\* C29 witness: get_disabled_until has returned the end of a window that is
\* over, from the row of a user without a cache entry; the row is still
\* there and the cache has no entry.
C29_Witness ==
    /\ ret.op = "get_disabled_until"
    /\ ret.impl = Some(1)
    /\ _disabled_until[ret.user] = None
    /\ notification_settings[ret.user] = Some(1)
    /\ now = 2

(***************************************************************************)
(* The token dialogue beside the cycle, started on a database file whose   *)
(* records hold any flag and, for a cursor, nothing or the id of an event  *)
(* that the listing no longer returns (id 0, older than every event of the *)
(* feed).                                                                  *)
(***************************************************************************)
InitUpsert ==
    /\ users \in [UserIds -> {None} \cup
                    {Some([yonote_token |-> tok, notifications_enabled |-> b,
                           last_event_id |-> c]) :
                       tok \in Tokens, b \in BOOLEAN, c \in {None, Some(0)}}]
    /\ notification_settings = [u \in UserIds |-> None]
    /\ _disabled_until = [u \in UserIds |-> None]
    /\ waiting_for_token = [u \in UserIds |-> FALSE]
    /\ now = 0
    /\ feed = [u \in UserIds |-> <<>>]
    /\ pc = [t \in Threads |-> "idle"]
    /\ row = [t \in Threads |-> None]
    /\ hUser = 0
    /\ hArg = 0
    /\ hAuth = None
    /\ hRes = None
    /\ cUsers = <<>>
    /\ cSession = "none"
    /\ cPage = <<>>
    /\ cNew = <<>>
    /\ cPending = <<>>
    /\ cSent = <<>>
    /\ cSkipped = {}
    /\ delivered = [u \in UserIds |-> {}]
    /\ ncmd = 0
    /\ running = 0
    /\ missed = FALSE
    /\ expired = [u \in UserIds |-> FALSE]
    /\ ret = NoResult
    /\ ref_rows = [u \in UserIds |-> None]

NextUpsert ==
    \/ Cycle
    \/ select_row("cycle")
    \/ check_row("cycle")
    \/ \E u \in UserIds : connect_callback(u)
    \/ \E u \in UserIds, tok \in Tokens : handle_message(u, tok)
    \/ get_auth_info_returns
    \/ token_saved
    \/ token_rejected
    \/ \E u \in UserIds : Publish(u)

UpsertSpec == InitUpsert /\ [][NextUpsert]_vars

\* The step is the committed save_user_token of the token dialogue: the
\* handler leaves line 266 and the user is no longer asked for a token.
TokenSaved ==
    /\ pc["chat"] = "save_user_token"
    /\ waiting_for_token[hUser]
    /\ ~waiting_for_token'[hUser]

\* The record save_user_token(u, t) writes, as get_all_users returns it.
FreshUser(u, t) ==
    [user_id |-> u, yonote_token |-> t, notifications_enabled |-> TRUE,
     last_event_id |-> None]

\* C28.  Upsert replaces the whole record: a committed save_user_token(u, t)
\* on an existing record leaves the record with token t, the flag on and no
\* cursor, whatever the flag and the cursor were; and a cycle that read the
\* record as the save left it takes the whole fetched page for new.
C28_UpsertReplaces ==
    [][/\ (TokenSaved /\ users[hUser] # None) =>
              users'[hUser] = Some([yonote_token |-> hArg,
                                    notifications_enabled |-> TRUE,
                                    last_event_id |-> None])
       /\ (/\ pc["cycle"] = "get_events"
           /\ cPage' # cPage
           /\ \E t \in Tokens : CurrentUser = FreshUser(CurrentUser.user_id, t)) =>
              cNew' = cPage']_vars

\* C28 witness: the cycle still holds the record it read, with the flag off
\* and a cursor, and has skipped the user; since then the user's token was
\* saved, and the table holds the token with the flag on and no cursor.
C28_Witness ==
    /\ pc["cycle"] = "done"
    /\ pc["chat"] = "idle"
    /\ ~CurrentUser.notifications_enabled
    /\ CurrentUser.last_event_id = Some(0)
    /\ ~waiting_for_token[CurrentUser.user_id]
    /\ ncmd = 2
    /\ users[CurrentUser.user_id] =
          Some([yonote_token |-> CurrentUser.yonote_token,
                notifications_enabled |-> TRUE,
                last_event_id |-> None])

(***************************************************************************)
(* The formatter on its own.  A message is modelled by its two parts that  *)
(* depend on the event: the verb phrase and the comment text (None when    *)
(* the message has no comment line).  The title, the actor's name, the     *)
(* time and the link are interpolated as they are and are left out.  The   *)
(* Cyrillic phrases are written in Latin letters.  A comment body is the   *)
(* sequence of its code points.                                            *)
(***************************************************************************)
create_phrase == "sozdal kommentariy"
update_phrase == "izmenil kommentariy"
delete_phrase == "udalil kommentariy"
resolve_phrase == "izmenil status kommentariya"
generic_phrase == "vypolnil deystvie s kommentariem"

\* A chain that tests "update" before "create".
action_of_update_first(event_name) ==
    IF Contains(Lower(event_name), "update") THEN update_phrase
    ELSE IF Contains(Lower(event_name), "create") THEN create_phrase
    ELSE IF Contains(Lower(event_name), "delete") THEN delete_phrase
    ELSE IF Contains(Lower(event_name), "resolve") THEN resolve_phrase
    ELSE generic_phrase

\* _format_notification, lines 540-549: the if/elif chain on the name.
action_of(event_name) ==
    IF Contains(Lower(event_name), "create") THEN create_phrase
    ELSE IF Contains(Lower(event_name), "update") THEN update_phrase
    ELSE IF Contains(Lower(event_name), "delete") THEN delete_phrase
    ELSE IF Contains(Lower(event_name), "resolve") THEN resolve_phrase
    ELSE generic_phrase

\* The slice bound and the length test of lines 565-566.
text_limit == 200

\* "..." as code points.
ellipsis == <<46, 46, 46>>

\* A cut whose length test is off by one (>= for >).
comment_text_of_early(data) ==
    LET comment_text == SubSeq(data, 1, IF Len(data) < text_limit THEN Len(data)
                                        ELSE text_limit)
    IN  IF Len(data) >= text_limit THEN comment_text \o ellipsis ELSE comment_text

\* Lines 565-567: comment_data['data'][:200], and "..." appended when
\* len(comment_data['data']) > 200.
comment_text_of(data) ==
    LET comment_text == SubSeq(data, 1, IF Len(data) < text_limit THEN Len(data)
                                        ELSE text_limit)
    IN  IF Len(data) > text_limit THEN comment_text \o ellipsis ELSE comment_text

\* _format_notification(event, document), lines 531-571.  event.data is None
\* when the event carries no dict with a 'data' key; an empty body is falsy
\* (line 564) and gives no comment line.
_format_notification(event) ==
    [action |-> action_of(event.name),
     comment_text |-> IF event.data # None /\ Val(event.data) # <<>>
                      THEN Some(comment_text_of(Val(event.data)))
                      ELSE None]

\* Event names: a prefix and up to two words, keywords in any order and case.
NameWords == {"", "create", "UPDATE", "Delete", "resolve", "pin"}
EventNames == { p \o a \o b : p \in {"comments.", "Comment_"}, a \in NameWords, b \in NameWords }

\* Bodies of every length up to MaxBodyLen, in two colourings of code points.
BodyOf(n, k) == [i \in 1..n |-> 97 + ((i + k) % 3)]
Bodies == { BodyOf(n, k) : n \in 0..MaxBodyLen, k \in 0..1 }

InitFormat ==
    /\ \E name \in EventNames, data \in {None} \cup {Some(b) : b \in Bodies} :
          cPending = <<[id |-> 1, name |-> name, documentId |-> Some(1), data |-> data]>>
    /\ users = [u \in UserIds |-> None]
    /\ notification_settings = [u \in UserIds |-> None]
    /\ _disabled_until = [u \in UserIds |-> None]
    /\ waiting_for_token = [u \in UserIds |-> FALSE]
    /\ now = 0
    /\ feed = [u \in UserIds |-> <<>>]
    /\ pc = [t \in Threads |-> "idle"]
    /\ row = [t \in Threads |-> None]
    /\ hUser = 0
    /\ hArg = 0
    /\ hAuth = None
    /\ hRes = None
    /\ cUsers = <<>>
    /\ cSession = "none"
    /\ cPage = <<>>
    /\ cNew = <<>>
    /\ cSent = <<>>
    /\ cSkipped = {}
    /\ delivered = [u \in UserIds |-> {}]
    /\ ncmd = 0
    /\ running = 0
    /\ missed = FALSE
    /\ expired = [u \in UserIds |-> FALSE]
    /\ ret = NoResult
    /\ ref_rows = [u \in UserIds |-> None]

\* _send_notification, line 512: the message is formatted for the event.
format_notification ==
    /\ cPending # <<>>
    /\ cSent = <<>>
    /\ cSent' = <<_format_notification(Head(cPending))>>
    /\ UNCHANGED <<tables, _disabled_until, waiting_for_token, world, pc, row, chatLocals,
                   cUsers, cSession, cPage, cNew, cPending, cSkipped, running, history,
                   ncmd>>

NextFormat == format_notification

FormatSpec == InitFormat /\ [][NextFormat]_vars

Keywords == <<"create", "update", "delete", "resolve">>
Phrases == <<create_phrase, update_phrase, delete_phrase, resolve_phrase>>

\* The keywords the lowercased name of the formatted event contains.
KeywordsIn == {i \in 1..Len(Keywords) : Contains(Lower(cPending[1].name), Keywords[i])}

\* C15.  Verb mapping precedence: the formatted message carries the phrase of
\* the earliest keyword, in the order create, update, delete, resolve, that the
\* lowercased event name contains, and the generic phrase when it contains
\* none.
C15_VerbPrecedence ==
    cSent # <<>> =>
        IF KeywordsIn = {}
        THEN cSent[1].action = generic_phrase
        ELSE \E i \in KeywordsIn :
                /\ \A j \in KeywordsIn : i <= j
                /\ cSent[1].action = Phrases[i]

\* C15 witness: a formatted name that contains "delete" before "create" got
\* the create phrase.
C15_Witness ==
    /\ cSent # <<>>
    /\ cPending[1].name = "comments.Deletecreate"
    /\ cSent[1].action = create_phrase

\* The body of the formatted event (empty when it has none).
Body == IF cPending[1].data = None THEN <<>> ELSE Val(cPending[1].data)

\* C16.  Comment body truncation: a body of at most 200 characters is rendered
\* as it is with no ellipsis (an empty body as no comment line at all), and a
\* longer body as its first 200 characters followed by "...".
C16_Truncation ==
    cSent # <<>> =>
        /\ Len(Body) = 0 => cSent[1].comment_text = None
        /\ (0 < Len(Body) /\ Len(Body) <= 200) => cSent[1].comment_text = Some(Body)
        /\ Len(Body) > 200 =>
                cSent[1].comment_text = Some(SubSeq(Body, 1, 200) \o <<46, 46, 46>>)

\* C16 witness: a body of 201 characters was formatted and rendered as its
\* first 200 characters and the three of the ellipsis.
C16_Witness ==
    /\ cSent # <<>>
    /\ cSent[1].comment_text # None
    /\ Len(Body) = 201
    /\ Len(Val(cSent[1].comment_text)) = 203
    /\ Val(cSent[1].comment_text)[200] = Body[200]


====
